---- MODULE Spec2Model ----
(***************************************************************************)
(* State-machine model of the receipt scanner: the App component           *)
(* (src/App.tsx), the ReceiptEdit form (src/App.tsx, second half), the     *)
(* CameraView (src/components/CameraView.tsx), the HistoryView controls    *)
(* (src/components/HistoryView.tsx) and the extraction client              *)
(* processReceipt (src/unnamed/part_000).                                  *)
(*                                                                         *)
(* JavaScript numbers are modelled as fixed-point integers (Scale units    *)
(* per 1), NaN apart; texts typed into the total field are sequences of    *)
(* one-character strings; every other string is an atom.                   *)
(***************************************************************************)
EXTENDS Integers, Sequences, FiniteSets, TLC

\* ------------------------------------------------------------------ bounds

\* Longest receipt list explored (Confirm is disabled beyond it).
MaxReceipts == 2

\* Most asynchronous operations (file reads, extraction calls, sync timers,
\* camera requests) in flight at once.
MaxPending == 2

\* ------------------------------------------------------- numbers and texts

\* A JavaScript number n is the integer n * Scale (three decimals).
FracDigits == 3

DigitChars == <<"0", "1", "2", "3", "4", "5", "6", "7", "8", "9">>

IsDigit(c) == \E d \in 1..10 : DigitChars[d] = c

DigitVal(c) == (CHOOSE d \in 1..10 : DigitChars[d] = c) - 1

RECURSIVE Pow10(_)
Pow10(k) == IF k = 0 THEN 1 ELSE 10 * Pow10(k - 1)

Scale == Pow10(FracDigits)

\* Number of consecutive digit characters of s starting at position i.
RECURSIVE DigitRun(_, _)
DigitRun(s, i) ==
    IF i <= Len(s) /\ IsDigit(s[i]) THEN 1 + DigitRun(s, i + 1) ELSE 0

\* Value of the n digits of s starting at i, read as an integer.
RECURSIVE DigitsValue(_, _, _)
DigitsValue(s, i, n) ==
    IF n = 0 THEN 0
    ELSE DigitsValue(s, i, n - 1) * 10 + DigitVal(s[i + n - 1])

NaN == [nan |-> TRUE, v |-> 0]

Num(n) == [nan |-> FALSE, v |-> n]

\* JavaScript parseFloat: an optional sign, digits, an optional "." and
\* digits; the longest such prefix is converted and whatever follows it is
\* ignored; NaN when the prefix holds no digit.
parseFloat(s) ==
    LET neg    == Len(s) >= 1 /\ s[1] = "-"
        plus   == Len(s) >= 1 /\ s[1] = "+"
        start  == IF neg \/ plus THEN 2 ELSE 1
        nInt   == DigitRun(s, start)
        dot    == start + nInt
        hasDot == dot <= Len(s) /\ s[dot] = "."
        nFrac  == IF hasDot THEN DigitRun(s, dot + 1) ELSE 0
        kept   == IF nFrac > FracDigits THEN FracDigits ELSE nFrac
        mag    == DigitsValue(s, start, nInt) * Scale
                  + DigitsValue(s, dot + 1, kept) * Pow10(FracDigits - kept)
    IN  IF nInt + nFrac = 0 THEN NaN
        ELSE Num(IF neg THEN -mag ELSE mag)

\* x || 0 on a number: NaN and 0 are falsy.
OrZero(x) == IF x.nan \/ x.v = 0 THEN 0 ELSE x.v

\* Decimal digits of the natural number n.
RECURSIVE NatText(_)
NatText(n) ==
    IF n < 10 THEN <<DigitChars[n + 1]>>
    ELSE NatText(n \div 10) \o <<DigitChars[(n % 10) + 1]>>

\* The k fractional digits of f (f < 10^k), trailing zeros dropped.
RECURSIVE FracText(_, _)
FracText(f, k) ==
    IF f = 0 \/ k = 0 THEN <<>>
    ELSE <<DigitChars[(f \div Pow10(k - 1)) + 1]>>
         \o FracText(f % Pow10(k - 1), k - 1)

\* Number.prototype.toString of the number n.
numberToString(n) ==
    LET mag  == IF n < 0 THEN -n ELSE n
        frac == mag % Scale
    IN  (IF n < 0 THEN <<"-">> ELSE <<>>)
        \o NatText(mag \div Scale)
        \o (IF frac = 0 THEN <<>> ELSE <<".">> \o FracText(frac, FracDigits))

\* ------------------------------------------------------------ data model

Undefined == "undefined"

\* export enum Category.
Category ==
    {"Food & Dining", "Transport", "Shopping", "Utilities", "Entertainment",
     "Other"}

\* new Date().toISOString().split('T')[0]
Today == "2026-11-04"

\* Date.now().toString(): the id is opaque, one instant stands for all.
Times == {"1762250000000"}

\* Frames the shutter produces (canvas.toDataURL('image/jpeg', 0.8)).
CameraFrames == {"data:image/jpeg;base64,/9j/4AAQ"}

\* Files the user picks or drops, with the data URL readAsDataURL gives.
Files ==
    {[type |-> "image/jpeg", url |-> "data:image/jpeg;base64,/9j/4AAQ"],
     [type |-> "text/plain", url |-> "data:text/plain;base64,aGVsbG8="]}

\* handleFileUpload with its type check left out: every file passes.
IsImageTypeAny(type) == TRUE

\* file.type.startsWith('image/')
IsImageType(type) == type \in {"image/jpeg", "image/png", "image/gif"}

\* The data URLs a FileReader or the shutter can hand to handleCapture.
Urls == CameraFrames \cup {f.url : f \in Files}

\* JSON objects the extraction service answers with (response.text parsed).
Responses ==
    {[merchant |-> "Cafe Luna", total |-> 12500],
     [date |-> "2024-01-15", merchant |-> "Bazaar", total |-> -3000,
      category |-> "Groceries", paymentSource |-> "Visa 1234"]}

\* What ai.models.generateContent does: it throws, or it returns a response
\* whose text is missing, is not JSON, or is a JSON object.
Replies ==
    {[ok |-> FALSE]}
    \cup {[ok |-> TRUE, text |-> [kind |-> "garbage"]]}
    \cup {[ok |-> TRUE, text |-> [kind |-> "json", value |-> r]] : r \in Responses}

\* Texts the total input's change event delivers (e.target.value).
TotalTexts == {<<"1", "2", ".", "x">>}

Null == [null |-> TRUE]

\* result.f with no default: undefined where the object lacks the field.
FieldOrUndefined(result, f, d) ==
    IF f \in DOMAIN result THEN result[f] ELSE Undefined

\* result.f || d for a string field f of a parsed JSON object.
FieldOr(result, f, d) ==
    IF f \in DOMAIN result /\ result[f] # "" THEN result[f] ELSE d

\* The error processReceipt's try block throws on the reply, "none" if it
\* throws none: the request's own error, JSON.parse's SyntaxError on a text
\* that is not JSON, the TypeError of reading result.date of null.
thrown(reply) ==
    IF ~reply.ok THEN "request error"
    ELSE IF reply.text.kind = "garbage" THEN "SyntaxError"
    ELSE IF reply.text.kind = "null" THEN "TypeError"
    ELSE "none"

\* processReceipt with a catch that returns the defaults instead of
\* rethrowing.
processReceiptSwallows(reply) ==
    IF thrown(reply) # "none"
    THEN [ok |-> TRUE,
          data |-> [date |-> Today, merchant |-> "Unknown Merchant",
                    total |-> 0, category |-> "Other",
                    paymentSource |-> "Unknown"]]
    ELSE LET result == IF reply.text.kind \in {"missing", "empty"} THEN <<>>
                       ELSE reply.text.value
         IN  [ok |-> TRUE,
              data |->
                [date |-> FieldOr(result, "date", Today),
                 merchant |-> FieldOr(result, "merchant", "Unknown Merchant"),
                 total |-> IF "total" \in DOMAIN result
                           THEN OrZero(Num(result.total)) ELSE 0,
                 category |-> FieldOr(result, "category", "Other"),
                 paymentSource |-> FieldOr(result, "paymentSource", "Unknown")]]

\* processReceipt after the request: JSON.parse(response.text || '{}'), a
\* missing or empty text read as '{}', and the field defaults; the catch
\* rethrows what the request or the parsing threw.
processReceipt(reply) ==
    IF thrown(reply) # "none" THEN [ok |-> FALSE, error |-> thrown(reply)]
    ELSE LET result == IF reply.text.kind \in {"missing", "empty"} THEN <<>>
                       ELSE reply.text.value
         IN  [ok |-> TRUE,
              data |->
                [date |-> FieldOr(result, "date", Today),
                 merchant |-> FieldOr(result, "merchant", "Unknown Merchant"),
                 total |-> IF "total" \in DOMAIN result
                           THEN OrZero(Num(result.total)) ELSE 0,
                 category |-> FieldOr(result, "category", "Other"),
                 paymentSource |-> FieldOr(result, "paymentSource", "Unknown")]]

\* ReceiptEdit's useState initialiser: the form fields from initialData.
initialFormData(initialData) ==
    [date |-> IF initialData.date \in {Undefined, ""} THEN Today
              ELSE initialData.date,
     merchant |-> IF initialData.merchant = Undefined THEN ""
                  ELSE initialData.merchant,
     total |-> numberToString(initialData.total),
     category |-> IF initialData.category \in {Undefined, ""} THEN "Other"
                  ELSE initialData.category,
     paymentSource |-> IF initialData.paymentSource \in {Undefined, ""}
                       THEN "Credit Card" ELSE initialData.paymentSource]

\* handleSubmit with status: 'synced' in place of 'pending'.
handleSubmitSynced(form, initialData) ==
    [id |-> initialData.id,
     date |-> form.date,
     merchant |-> form.merchant,
     total |-> OrZero(parseFloat(form.total)),
     category |-> form.category,
     paymentSource |-> form.paymentSource,
     status |-> "synced",
     imageUrl |-> initialData.imageUrl]

\* ReceiptEdit.handleSubmit: the record handed to onSave. initialData.id is
\* set by handleCapture in every draft, so its "|| Date.now()" never applies.
handleSubmit(form, initialData) ==
    [id |-> initialData.id,
     date |-> form.date,
     merchant |-> form.merchant,
     total |-> OrZero(parseFloat(form.total)),
     category |-> form.category,
     paymentSource |-> form.paymentSource,
     status |-> "pending",
     imageUrl |-> initialData.imageUrl]

\* JSON.stringify drops a property whose value is undefined.
ToJson(r) ==
    [k \in {f \in DOMAIN r : f # "imageUrl" \/ r.imageUrl # Undefined} |-> r[k]]

\* Reading a property a parsed object lacks gives undefined.
FromJson(o) ==
    [k \in DOMAIN o \cup {"imageUrl"} |->
        IF k \in DOMAIN o THEN o[k] ELSE Undefined]

\* localStorage.getItem of a slot never written.
Absent == [kind |-> "absent"]

\* The list written oldest first.
JSONstringifyReversed(list) ==
    [kind |-> "text",
     doc |-> [t |-> "array",
              items |-> [i \in 1..Len(list) |->
                           ToJson(list[Len(list) + 1 - i])]]]

\* JSON.stringify(receipts) as the slot's text.
JSONstringify(list) ==
    [kind |-> "text",
     doc |-> [t |-> "array",
              items |-> [i \in 1..Len(list) |-> ToJson(list[i])]]]

\* Contents the slot can have when the page opens.
InitialSlots ==
    {Absent,
     [kind |-> "text", doc |-> [t |-> "garbage"]],
     [kind |-> "text", doc |-> [t |-> "object"]],
     JSONstringify(<<>>)}

\* ------------------------------------------------------------------ state

VARIABLES
    pc,           \* "mount", "persist", "rerender", "running", "crashed"
    storage,      \* the localStorage slot 'scansheet_data'
    loaded,       \* the value the load effect handed to setReceipts, if any
    prev,         \* the receipt list the previous run of the page ended with
    activeView,   \* useState<View>('history')
    receipts,     \* useState<ReceiptData[]>([])
    isScanning,   \* useState(false)
    isProcessing, \* useState(false)
    currentEdit,  \* useState<Partial<ReceiptData> | null>(null)
    formData,     \* ReceiptEdit's useState, Null while the form is unmounted
    readers,      \* FileReader loads in flight, per data URL
    extractions,  \* processReceipt calls in flight, per image
    timers,       \* simulateSync timeouts in flight
    camera,       \* CameraView's getUserMedia requests and streams
    notice,       \* the alert() the last step showed, "none" if none
    client        \* a call of processReceipt made on its own: input, request,
                  \* answer and outcome

vars ==
    <<pc, storage, loaded, prev, activeView, receipts, isScanning,
      isProcessing, currentEdit, formData, readers, extractions, timers,
      camera, notice, client>>

\* Sum of a bag given as a function to the naturals.
RECURSIVE BagSize(_, _)
BagSize(b, dom) ==
    IF dom = {} THEN 0
    ELSE LET x == CHOOSE y \in dom : TRUE
         IN  b[x] + BagSize(b, dom \ {x})

NoReaders == [u \in Urls |-> 0]

NoExtractions == [u \in Urls |-> 0]

\* No CameraView mounted, no request pending, no stream open.
NoCamera == [req |-> FALSE, stream |-> FALSE, stale |-> 0, orphan |-> FALSE]

\* Asynchronous operations in flight.
Pending ==
    BagSize(readers, Urls) + BagSize(extractions, Urls) + timers
    + camera.stale + (IF camera.req THEN 1 ELSE 0)

Init ==
    /\ pc = "mount"
    /\ storage \in InitialSlots
    /\ loaded = Null
    /\ prev = [some |-> FALSE, list |-> <<>>]
    /\ activeView = "history"
    /\ receipts = <<>>
    /\ isScanning = FALSE
    /\ isProcessing = FALSE
    /\ currentEdit = Null
    /\ formData = Null
    /\ readers = NoReaders
    /\ extractions = NoExtractions
    /\ timers = 0
    /\ camera = NoCamera
    /\ notice = "none"
    /\ client = [phase |-> "idle"]

\* ------------------------------------------------------------ rendering

\* {activeView === 'edit' && currentEdit && <ReceiptEdit .../>}: the form
\* keeps its state while it stays mounted and is initialised when it mounts.
RenderForm(view, edit, form) ==
    IF view = "edit" /\ edit # Null
    THEN IF form # Null THEN form ELSE initialFormData(edit)
    ELSE Null

\* {isScanning && <CameraView .../>}: mounting runs startCamera, unmounting
\* runs the effect's cleanup, whose closure holds the stream of the first
\* render (null), so no track is stopped.
RenderCamera(cam, was, is) ==
    IF is /\ ~was THEN [cam EXCEPT !.req = TRUE, !.stream = FALSE]
    ELSE IF was /\ ~is
    THEN [req |-> FALSE, stream |-> FALSE,
          stale |-> cam.stale + (IF cam.req THEN 1 ELSE 0),
          orphan |-> cam.orphan \/ cam.stream]
    ELSE cam

\* What lies on top of what: the processing overlay is absolute inset-0
\* z-[60] inside <main>, the CameraView is fixed inset-0 z-50, the tab bar
\* is outside <main> at z-40.
HistoryReachable ==
    pc = "running" /\ activeView = "history" /\ ~isScanning /\ ~isProcessing

FormReachable ==
    pc = "running" /\ formData # Null /\ ~isScanning /\ ~isProcessing

NavReachable == pc = "running" /\ ~isScanning

\* The camera footer (h-40) reaches below <main> into the tab bar's strip
\* (h-20), where the processing overlay does not extend.
CameraReachable == pc = "running" /\ isScanning

\* -------------------------------------------------------------- start-up

NoPrev == [some |-> FALSE, list |-> <<>>]

\* The load effect: getItem, and JSON.parse of a slot that holds text.
LoadEffect ==
    /\ pc = "mount"
    /\ IF storage.kind = "absent"
       THEN /\ pc' = "persist"
            /\ UNCHANGED <<loaded, storage>>
       ELSE IF storage.doc.t = "garbage"
       THEN \* JSON.parse throws inside the effect: nothing catches it, and
            \* whether the persist effect of the same commit still runs is
            \* React's choice.
            /\ pc' = "crashed"
            /\ storage' \in {storage, JSONstringify(<<>>)}
            /\ UNCHANGED loaded
       ELSE /\ pc' = "persist"
            /\ loaded' = storage.doc
            /\ UNCHANGED storage
    /\ UNCHANGED <<prev, activeView, receipts, isScanning, isProcessing,
                   currentEdit, formData, readers, extractions, timers,
                   camera, notice>>
    /\ UNCHANGED client

\* The persist effect of the first commit: its closure holds the receipts of
\* the first render, the initial [].
PersistEffect ==
    /\ pc = "persist"
    /\ storage' = JSONstringify(receipts)
    /\ pc' = IF loaded = Null THEN "running" ELSE "rerender"
    /\ prev' = IF loaded = Null THEN NoPrev ELSE prev
    /\ UNCHANGED <<loaded, activeView, receipts, isScanning, isProcessing,
                   currentEdit, formData, readers, extractions, timers,
                   camera, notice>>
    /\ UNCHANGED client

\* The render that setReceipts(JSON.parse(saved)) asked for, and the persist
\* effect after it. HistoryView calls receipts.reduce, which throws on a
\* value that is no array.
Rerender ==
    /\ pc = "rerender"
    /\ IF loaded.t = "array"
       THEN /\ receipts' = [i \in 1..Len(loaded.items) |->
                                FromJson(loaded.items[i])]
            /\ storage' = JSONstringify(receipts')
            /\ pc' = "running"
       ELSE /\ pc' = "crashed"
            /\ UNCHANGED <<receipts, storage>>
    /\ loaded' = Null
    /\ prev' = NoPrev
    /\ UNCHANGED <<activeView, isScanning, isProcessing, currentEdit,
                   formData, readers, extractions, timers, camera, notice>>
    /\ UNCHANGED client

\* The user reloads the page: memory and everything in flight are gone, the
\* slot stays.
Restart ==
    /\ pc \in {"running", "crashed"}
    /\ pc' = "mount"
    /\ prev' = [some |-> pc = "running", list |-> receipts]
    /\ loaded' = Null
    /\ activeView' = "history"
    /\ receipts' = <<>>
    /\ isScanning' = FALSE
    /\ isProcessing' = FALSE
    /\ currentEdit' = Null
    /\ formData' = Null
    /\ readers' = NoReaders
    /\ extractions' = NoExtractions
    /\ timers' = 0
    /\ camera' = NoCamera
    /\ notice' = "none"
    /\ UNCHANGED storage
    /\ UNCHANGED client

\* ----------------------------------------------------------------- tab bar

\* onClick={() => setActiveView('history')}
TapSheet ==
    /\ NavReachable
    /\ activeView' = "history"
    /\ formData' = RenderForm("history", currentEdit, formData)
    /\ notice' = "none"
    /\ UNCHANGED <<pc, storage, loaded, prev, receipts, isScanning,
                   isProcessing, currentEdit, readers, extractions, timers,
                   camera>>
    /\ UNCHANGED client

\* onClick={() => setIsScanning(true)}; the CameraView mounts and asks for
\* the camera.
TapCapture ==
    /\ NavReachable
    /\ Pending < MaxPending
    /\ isScanning' = TRUE
    /\ camera' = RenderCamera(camera, isScanning, TRUE)
    /\ notice' = "none"
    /\ UNCHANGED <<pc, storage, loaded, prev, activeView, receipts,
                   isProcessing, currentEdit, formData, readers, extractions,
                   timers>>
    /\ UNCHANGED client

\* ------------------------------------------------------------ handleCapture

\* handleCapture up to its await: setIsScanning(false), setIsProcessing(true)
\* and the call of processReceipt(base64).
HandleCaptureStart(base64) ==
    /\ isScanning' = FALSE
    /\ isProcessing' = TRUE
    /\ extractions' = [extractions EXCEPT ![base64] = @ + 1]
    /\ camera' = RenderCamera(camera, isScanning, FALSE)

\* The await returns: setCurrentEdit, setActiveView('edit'), and the finally.
ExtractionResolves ==
    /\ pc = "running"
    /\ \E base64 \in Urls, reply \in Replies, now \in Times :
         LET extractedData == processReceipt(reply)
         IN  /\ extractions[base64] > 0
             /\ extractedData.ok
             /\ extractions' = [extractions EXCEPT ![base64] = @ - 1]
             /\ currentEdit' =
                  [date |-> extractedData.data.date,
                   merchant |-> extractedData.data.merchant,
                   total |-> extractedData.data.total,
                   category |-> extractedData.data.category,
                   paymentSource |-> extractedData.data.paymentSource,
                   imageUrl |-> base64,
                   id |-> now]
    /\ activeView' = "edit"
    /\ formData' = RenderForm("edit", currentEdit', formData)
    /\ isProcessing' = FALSE
    /\ notice' = "none"
    /\ UNCHANGED <<pc, storage, loaded, prev, receipts, isScanning, readers,
                   timers, camera>>
    /\ UNCHANGED client

\* The await throws: the catch's alert, and the finally.
ExtractionRejects ==
    /\ pc = "running"
    /\ \E base64 \in Urls, reply \in Replies :
         /\ extractions[base64] > 0
         /\ ~processReceipt(reply).ok
         /\ extractions' = [extractions EXCEPT ![base64] = @ - 1]
    /\ isProcessing' = FALSE
    /\ notice' = "Failed to analyze receipt. Please try again."
    /\ UNCHANGED <<pc, storage, loaded, prev, activeView, receipts,
                   isScanning, currentEdit, formData, readers, timers, camera>>
    /\ UNCHANGED client

\* ---------------------------------------------------------------- CameraView

\* The Cancel button: onCancel={() => setIsScanning(false)}
CameraCancel ==
    /\ CameraReachable
    /\ isScanning' = FALSE
    /\ camera' = RenderCamera(camera, isScanning, FALSE)
    /\ notice' = "none"
    /\ UNCHANGED <<pc, storage, loaded, prev, activeView, receipts,
                   isProcessing, currentEdit, formData, readers, extractions,
                   timers>>
    /\ UNCHANGED client

\* The shutter: capturePhoto draws the frame and calls onCapture(base64).
\* video and canvas are rendered from the first render on, so both refs are
\* set whether or not the camera has been granted yet.
capturePhoto ==
    /\ CameraReachable
    /\ Pending < MaxPending
    /\ \E base64 \in CameraFrames : HandleCaptureStart(base64)
    /\ notice' = "none"
    /\ UNCHANGED <<pc, storage, loaded, prev, activeView, receipts,
                   currentEdit, formData, readers, timers>>
    /\ UNCHANGED client

\* getUserMedia resolves, for the mounted view (setStream) or for a view
\* that has closed since (its setStream is dropped, the stream stays open).
CameraGranted ==
    /\ pc = "running"
    /\ \/ /\ camera.req
          /\ camera' = [camera EXCEPT !.req = FALSE, !.stream = TRUE]
       \/ /\ camera.stale > 0
          /\ camera' = [camera EXCEPT !.stale = @ - 1, !.orphan = TRUE]
    /\ notice' = "none"
    /\ UNCHANGED <<pc, storage, loaded, prev, activeView, receipts,
                   isScanning, isProcessing, currentEdit, formData, readers,
                   extractions, timers>>
    /\ UNCHANGED client

\* getUserMedia rejects: the alert, and onCancel(), the App's
\* setIsScanning(false), whichever view the request came from.
CameraDenied ==
    /\ pc = "running"
    /\ \/ /\ camera.req
          /\ camera' = RenderCamera([camera EXCEPT !.req = FALSE],
                                    isScanning, FALSE)
       \/ /\ camera.stale > 0
          /\ camera' = RenderCamera([camera EXCEPT !.stale = @ - 1],
                                    isScanning, FALSE)
    /\ isScanning' = FALSE
    /\ notice' = "Please enable camera access to scan receipts."
    /\ UNCHANGED <<pc, storage, loaded, prev, activeView, receipts,
                   isProcessing, currentEdit, formData, readers, extractions,
                   timers>>
    /\ UNCHANGED client

\* --------------------------------------------------------------- HistoryView

\* handleFileChange / handleDrop -> handleFileUpload(file)
Upload ==
    /\ HistoryReachable
    /\ \E file \in Files :
         IF IsImageType(file.type)
         THEN /\ Pending < MaxPending
              /\ readers' = [readers EXCEPT ![file.url] = @ + 1]
              /\ notice' = "none"
         ELSE /\ notice' = "Please upload an image file."
              /\ UNCHANGED readers
    /\ UNCHANGED <<pc, storage, loaded, prev, activeView, receipts,
                   isScanning, isProcessing, currentEdit, formData,
                   extractions, timers, camera>>
    /\ UNCHANGED client

\* reader.onload: if (base64) handleCapture(base64)
ReaderLoaded ==
    /\ pc = "running"
    /\ \E base64 \in Urls :
         /\ readers[base64] > 0
         /\ readers' = [readers EXCEPT ![base64] = @ - 1]
         /\ HandleCaptureStart(base64)
    /\ notice' = "none"
    /\ UNCHANGED <<pc, storage, loaded, prev, activeView, receipts,
                   currentEdit, formData, timers>>
    /\ UNCHANGED client

\* receipts.map(r => ({ ...r, status: 'synced', imageUrl: undefined })): the
\* image dropped from every record that is marked.
markAllSyncedDropImage(list) ==
    [i \in 1..Len(list) |->
        [list[i] EXCEPT !.status = "synced", !.imageUrl = Undefined]]

\* receipts.reverse().map(r => ({ ...r, status: 'synced' })): the list
\* turned round while it is marked.
markAllSyncedReversed(list) ==
    [i \in 1..Len(list) |->
        [list[Len(list) + 1 - i] EXCEPT !.status = "synced"]]

\* receipts.map(r => ({ ...r, status: 'synced' }))
markAllSynced(list) ==
    [i \in 1..Len(list) |-> [list[i] EXCEPT !.status = "synced"]]

\* simulateSync with its first line left out.
simulateSyncUnguarded(list) == FALSE

\* if (receipts.length === 0) return;
simulateSyncReturns(list) == Len(list) = 0

\* The Sync button: simulateSync up to setTimeout.
TapSync ==
    /\ HistoryReachable
    /\ IF simulateSyncReturns(receipts)
       THEN UNCHANGED <<isProcessing, timers>>
       ELSE /\ Pending < MaxPending
            /\ isProcessing' = TRUE
            /\ timers' = timers + 1
    /\ notice' = "none"
    /\ UNCHANGED <<pc, storage, loaded, prev, activeView, receipts,
                   isScanning, currentEdit, formData, readers, extractions,
                   camera>>
    /\ UNCHANGED client

\* The timeout's callback, and the persist effect the new list triggers.
SyncTimerFires ==
    /\ pc = "running"
    /\ timers > 0
    /\ timers' = timers - 1
    /\ receipts' = markAllSynced(receipts)
    /\ storage' = JSONstringify(receipts')
    /\ isProcessing' = FALSE
    /\ notice' = "Successfully synced with Google Sheets!"
    /\ UNCHANGED <<pc, loaded, prev, activeView, isScanning, currentEdit,
                   formData, readers, extractions, camera>>
    /\ UNCHANGED client

\* --------------------------------------------------------------- ReceiptEdit

\* onChange of the total input: setFormData({...formData, total: value})
ChangeTotal ==
    /\ FormReachable
    /\ \E value \in TotalTexts : formData' = [formData EXCEPT !.total = value]
    /\ notice' = "none"
    /\ UNCHANGED <<pc, storage, loaded, prev, activeView, receipts,
                   isScanning, isProcessing, currentEdit, readers,
                   extractions, timers, camera>>
    /\ UNCHANGED client

\* setReceipts(prev => [...prev, data]): the new record put last.
saveReceiptLast(list, data) == list \o <<data>>

\* saveReceipt's setReceipts(prev => [data, ...prev])
saveReceipt(list, data) == <<data>> \o list

\* Done with a saveReceipt that lacks setActiveView('history').
SubmitStaysInEdit ==
    /\ FormReachable
    /\ Len(receipts) < MaxReceipts
    /\ receipts' = saveReceipt(receipts, handleSubmit(formData, currentEdit))
    /\ storage' = JSONstringify(receipts')
    /\ currentEdit' = Null
    /\ formData' = RenderForm(activeView, Null, formData)
    /\ notice' = "none"
    /\ UNCHANGED <<pc, loaded, prev, activeView, isScanning, isProcessing,
                   readers, extractions, timers, camera, client>>

\* Done: handleSubmit -> onSave = saveReceipt, and the persist effect the
\* new list triggers.
Submit ==
    /\ FormReachable
    /\ Len(receipts) < MaxReceipts
    /\ receipts' = saveReceipt(receipts, handleSubmit(formData, currentEdit))
    /\ storage' = JSONstringify(receipts')
    /\ currentEdit' = Null
    /\ activeView' = "history"
    /\ formData' = RenderForm("history", Null, formData)
    /\ notice' = "none"
    /\ UNCHANGED <<pc, loaded, prev, isScanning, isProcessing, readers,
                   extractions, timers, camera>>
    /\ UNCHANGED client

\* Cancel: onCancel={() => setActiveView('history')}
FormCancel ==
    /\ FormReachable
    /\ activeView' = "history"
    /\ formData' = RenderForm("history", currentEdit, formData)
    /\ notice' = "none"
    /\ UNCHANGED <<pc, storage, loaded, prev, receipts, isScanning,
                   isProcessing, currentEdit, readers, extractions, timers,
                   camera>>
    /\ UNCHANGED client

\* ------------------------------------------------------------ specification

Next ==
    \/ LoadEffect
    \/ PersistEffect
    \/ Rerender
    \/ Restart
    \/ TapSheet
    \/ TapCapture
    \/ CameraCancel
    \/ capturePhoto
    \/ CameraGranted
    \/ CameraDenied
    \/ Upload
    \/ ReaderLoaded
    \/ ExtractionResolves
    \/ ExtractionRejects
    \/ TapSync
    \/ SyncTimerFires
    \/ ChangeTotal
    \/ Submit
    \/ FormCancel

Spec == Init /\ [][Next]_vars

\* -------------------------------------- the extraction client on its own

\* A data URL or a raw payload as a text: a sequence of pieces, the comma a
\* piece of its own.
ImageInputs ==
    {<<"data:image/jpeg;base64", ",", "/9j/4AAQ">>,
     <<"data:image/png;base64", ",", "iVBORw0KGgo">>,
     <<"/9j/4AAQ">>,
     \* canvas.toDataURL of a canvas of width 0 (the shutter pressed before
     \* the video has a frame): "data:,"
     <<"data:", ",">>}

\* String.prototype.split(','): the pieces between the commas.
RECURSIVE split(_)
split(s) ==
    IF \A i \in 1..Len(s) : s[i] # "," THEN <<s>>
    ELSE LET k == CHOOSE i \in 1..Len(s) :
                      s[i] = "," /\ \A j \in 1..(i - 1) : s[j] # ","
         IN  <<SubSeq(s, 1, k - 1)>> \o split(SubSeq(s, k + 1, Len(s)))

\* inlineData.data: base64Image.split(',')[1] || base64Image. The empty
\* string is falsy, as is the undefined of a text without comma.
inlineData(base64Image) ==
    LET parts == split(base64Image)
    IN  IF Len(parts) >= 2 /\ parts[2] # <<>> THEN parts[2] ELSE base64Image

\* The fields of receiptSchema.
SchemaFields == {"date", "merchant", "total", "category", "paymentSource"}

SampleValues ==
    [date |-> "2024-01-15", merchant |-> "Cafe Luna", total |-> 12500,
     category |-> "Food & Dining", paymentSource |-> "Visa 1234"]

\* JSON objects with any subset of the fields, and one whose strings are
\* empty and whose total is 0 ("an empty string" is what the prompt asks for
\* when information is missing).
ClientObjects ==
    {[f \in S |-> SampleValues[f]] : S \in SUBSET SchemaFields}
    \cup {[date |-> "", merchant |-> "", total |-> 0, category |-> "",
           paymentSource |-> ""]}

\* What generateContent can do: throw, or answer with no text, an empty
\* text, a text that is not JSON, the JSON text null, or a JSON object.
ClientReplies ==
    {[ok |-> FALSE]}
    \cup {[ok |-> TRUE, text |-> [kind |-> k]] :
            k \in {"missing", "empty", "garbage", "null"}}
    \cup {[ok |-> TRUE, text |-> [kind |-> "json", value |-> o]] :
            o \in ClientObjects}

pageVars ==
    <<pc, storage, loaded, prev, activeView, receipts, isScanning,
      isProcessing, currentEdit, formData, readers, extractions, timers,
      camera, notice>>

\* processReceipt(base64Image) up to its await: the request is sent with
\* inlineData.data.
ClientCall ==
    /\ client.phase = "idle"
    /\ \E base64Image \in ImageInputs :
         client' = [phase |-> "sent", base64Image |-> base64Image,
                    data |-> inlineData(base64Image), requests |-> 1]
    /\ UNCHANGED pageVars

\* The await returns or throws: the promise resolves with the record or
\* rejects with the error.
ClientAnswer ==
    /\ client.phase = "sent"
    /\ \E reply \in ClientReplies :
         LET outcome == processReceipt(reply)
         IN  client' = [phase |-> IF outcome.ok THEN "resolved"
                                  ELSE "rejected",
                        base64Image |-> client.base64Image,
                        data |-> client.data,
                        requests |-> client.requests,
                        reply |-> reply,
                        outcome |-> outcome]
    /\ UNCHANGED pageVars

ClientInit == Init /\ storage = Absent

ClientNext ==
    \/ ClientCall
    \/ ClientAnswer

ClientSpec == ClientInit /\ [][ClientNext]_vars

\* ------------------------------------------------------------------ claims

\* Extraction calls and sync timers in flight.
InFlight == BagSize(extractions, Urls) + timers

\* C1: in every reachable state at most one extraction or sync operation is
\* in flight; no user action starts a second one while one is pending.
C1_OneInFlight == InFlight <= 1

\* C2: the Capturing overlay and the Processing overlay are never shown
\* together: isScanning and isProcessing are not both true.
C2_OverlaysExclusive == ~(isScanning /\ isProcessing)

FailedNotice == "Failed to analyze receipt. Please try again."

\* C3: a step in which an extraction fails shows the error notice and ends
\* in the List view with no edit form, with the receipt list and
\* currentEdit as they were before the step.
C3_FailureReturnsToList ==
    [][notice' = FailedNotice =>
         /\ activeView' = "history"
         /\ formData' = Null
         /\ receipts' = receipts
         /\ currentEdit' = currentEdit]_vars

\* C4: Processing, once entered, is left only when the extraction round-trip
\* has finished: no step hides the busy indicator while an extraction call
\* is still pending.
C4_LeftOnlyWhenFinished ==
    [][(isProcessing /\ ~isProcessing' /\ pc' = "running") =>
         BagSize(extractions', Urls) = 0]_vars

\* C5: start-up never crashes, whatever the storage slot holds (nothing,
\* text that is not JSON, JSON that is not an array).
C5_LoadNeverCrashes == pc # "crashed"

\* A step of the Done button: only saveReceipt clears the draft while the
\* page stays up.
SubmitStep == pc' = "running" /\ currentEdit # Null /\ currentEdit' = Null

\* C6: confirming the edit form puts the confirmed record first in the
\* receipt list, leaves the records stored before unchanged and in their
\* order behind it, and returns to the List view.
C6_ConfirmPrepends ==
    [][SubmitStep =>
         /\ receipts' = <<handleSubmit(formData, currentEdit)>> \o receipts
         /\ activeView' = "history"
         /\ formData' = Null]_vars

\* C6 happens: a pending record has been confirmed on top of a synced one.
C6_Witness ==
    /\ pc = "running"
    /\ Len(receipts) = 2
    /\ receipts[1].status = "pending"
    /\ receipts[2].status = "synced"
    /\ currentEdit = Null
    /\ activeView = "history"

\* C7: the list a fresh start of the page loads from the slot is the
\* in-memory list the previous run ended with, records and order alike.
C7_LoadRoundTrips ==
    [][(pc # "running" /\ pc' = "running" /\ prev.some) =>
         receipts' = prev.list]_vars

\* C7 happens: the page was reloaded with two different records in the list
\* and is about to show what it read from the slot.
C7_Witness ==
    /\ pc = "rerender"
    /\ prev.some
    /\ Len(prev.list) = 2
    /\ prev.list[1] # prev.list[2]
    /\ loaded # Null

\* C8: every record in the receipt list has a total that is a number
\* greater than or equal to 0.
C8_TotalsNonNegative ==
    \A i \in 1..Len(receipts) : receipts[i].total >= 0

\* C9: every record in the receipt list has a category of the closed set.
C9_CategoryInEnum ==
    \A i \in 1..Len(receipts) : receipts[i].category \in Category

\* The whole text is a decimal amount: digits with an optional sign and an
\* optional fraction, and nothing else.
IsDecimalAmount(s) ==
    LET start == IF Len(s) >= 1 /\ s[1] \in {"-", "+"} THEN 2 ELSE 1
        nInt  == DigitRun(s, start)
        dot   == start + nInt
        nFrac == IF dot <= Len(s) /\ s[dot] = "." THEN DigitRun(s, dot + 1)
                 ELSE 0
        last  == IF dot <= Len(s) /\ s[dot] = "." THEN dot + nFrac
                 ELSE dot - 1
    IN  nInt + nFrac > 0 /\ last = Len(s)

\* C10: confirming the form with a total text that is not a parsable decimal
\* amount, "12.x" in particular, stores total = 0.
C10_UnparsableTotalIsZero ==
    [][(SubmitStep /\ ~IsDecimalAmount(formData.total)) =>
         receipts'[1].total = 0]_vars

SyncNotice == "Successfully synced with Google Sheets!"

\* The fields of a record other than its status.
FrameFields ==
    {"id", "date", "merchant", "total", "category", "paymentSource",
     "imageUrl"}

\* Record a is record b in every field other than status.
SameButStatus(a, b) == \A f \in FrameFields : a[f] = b[f]

\* C11: the step in which the simulated sync completes leaves every record
\* of the list with status 'synced', keeps the number of records, their
\* order and every field other than status, and persists the result.
C11_SyncOnlyMarks ==
    [][notice' = SyncNotice =>
         /\ Len(receipts') = Len(receipts)
         /\ \A i \in 1..Len(receipts) :
              /\ receipts'[i].status = "synced"
              /\ SameButStatus(receipts'[i], receipts[i])
         /\ storage' = JSONstringify(receipts')]_vars

\* C11 happens: a sync has just completed on two different records.
C11_Witness ==
    /\ notice = SyncNotice
    /\ Len(receipts) = 2
    /\ receipts[1] # receipts[2]
    /\ receipts[1].imageUrl # Undefined

\* C12: tapping Sync while the receipt list is empty changes nothing: no
\* busy indicator, no timer, the list, the view and the stored data as they
\* were; and no timer is ever running over an empty list.
C12_EmptySyncNoOp ==
    [][/\ (TapSync /\ Len(receipts) = 0) =>
             UNCHANGED <<isProcessing, timers, receipts, activeView, storage,
                         currentEdit, formData, isScanning>>
       /\ Len(receipts) = 0 => timers' = 0]_vars

\* C12 happens: the List view over an empty list with the Sync button within
\* reach; the tap leaves this very state, with no alert showing.
C12_Witness ==
    /\ HistoryReachable
    /\ Len(receipts) = 0
    /\ timers = 0
    /\ storage = JSONstringify(<<>>)
    /\ notice = "none"

\* C13: while the page runs, every step keeps the records of the list, in
\* their order, behind whatever it adds in front: none is removed, none
\* changes place, so a record confirmed later precedes the earlier ones.
C13_NewestFirstForever ==
    [][(pc = "running" /\ pc' = "running") =>
         /\ Len(receipts') >= Len(receipts)
         /\ \A i \in 1..Len(receipts) :
              SameButStatus(receipts'[Len(receipts') - Len(receipts) + i],
                            receipts[i])]_vars

\* C13 happens: two different records were confirmed one after the other
\* and then synced together.
C13_Witness ==
    /\ pc = "running"
    /\ notice = SyncNotice
    /\ Len(receipts) = 2
    /\ receipts[1].merchant # receipts[2].merchant
    /\ receipts[1].status = "synced"
    /\ receipts[2].status = "synced"

\* C14: while the page runs the list grows only in a step of the edit
\* form's confirm action, by one record, and that record is 'pending' when
\* it is added.
C14_GrowsOnlyByConfirm ==
    [][(pc = "running" /\ Len(receipts') > Len(receipts)) =>
         /\ SubmitStep
         /\ formData # Null
         /\ Len(receipts') = Len(receipts) + 1
         /\ receipts'[1].status = "pending"]_vars

\* C14 happens: the first draft has been confirmed, and another extraction
\* has since delivered a draft that is not in the list.
C14_Witness ==
    /\ pc = "running"
    /\ Len(receipts) = 1
    /\ receipts[1].status = "pending"
    /\ currentEdit # Null
    /\ currentEdit.merchant # receipts[1].merchant

\* C15: cancelling the edit form returns to the List view, leaves no draft
\* held (currentEdit is cleared), and changes neither the receipt list nor
\* the stored data.
C15_CancelDiscardsDraft ==
    [][FormCancel =>
         /\ activeView' = "history"
         /\ currentEdit' = Null
         /\ receipts' = receipts
         /\ storage' = storage]_vars

\* C16: once a capture view has closed, by cancel, by the shutter or by an
\* error, no camera stream it acquired stays open, a stream granted after
\* the view closed included.
C16_StreamReleased == ~camera.orphan

CameraNotice == "Please enable camera access to scan receipts."

\* C20: a camera failure shows the notice and closes the capture view that
\* asked for the camera; a failure that arrives for a view cancelled earlier
\* (the mounted view has no request pending) leaves the later view open.
C20_FailureClosesItsOwnView ==
    [][notice' = CameraNotice =>
         /\ camera.req => ~isScanning'
         /\ ~camera.req => isScanning' = isScanning]_vars

UploadNotice == "Please upload an image file."

\* The data URLs of the files whose type is text/plain.
NonImageUrls == {f.url : f \in {g \in Files : g.type = "text/plain"}}

\* C19: the step in which a non-image file is uploaded shows the notice and
\* changes nothing else, and no file read and no extraction is ever in
\* flight for a non-image file.
C19_NonImageUploadRejected ==
    [][/\ notice' = UploadNotice =>
             UNCHANGED <<pc, storage, loaded, prev, activeView, receipts,
                         isScanning, isProcessing, currentEdit, formData,
                         readers, extractions, timers, camera>>
       /\ \A u \in NonImageUrls : readers'[u] = 0 /\ extractions'[u] = 0]_vars

\* C19 happens: a text/plain file has just been refused over a list that
\* holds a record.
C19_Witness ==
    /\ notice = UploadNotice
    /\ activeView = "history"
    /\ Len(receipts) = 1
    /\ BagSize(readers, Urls) = 0

\* The documented defaults of the five fields.
Defaults ==
    [date |-> Today, merchant |-> "Unknown Merchant", total |-> 0,
     category |-> "Other", paymentSource |-> "Unknown"]

\* The reply is an answer whose text is missing, empty or a JSON object.
AnsweredWithObject(reply) ==
    reply.ok /\ reply.text.kind \in {"missing", "empty", "json"}

\* The JSON object of such a reply ({} for a missing or empty text).
ObjectOf(reply) ==
    IF reply.text.kind = "json" THEN reply.text.value ELSE <<>>

HasComma(s) == \E i \in 1..Len(s) : s[i] = ","

\* The text after the first comma.
AfterFirstComma(s) ==
    LET k == CHOOSE i \in 1..Len(s) :
                 s[i] = "," /\ \A j \in 1..(i - 1) : s[j] # ","
    IN  SubSeq(s, k + 1, Len(s))

\* C18: of an image input with a metadata prefix (the text up to and
\* including the first comma) processReceipt forwards exactly the payload
\* after the prefix; an input without prefix it forwards unchanged.
C18_PrefixStripped ==
    client.phase # "idle" =>
        client.data = IF HasComma(client.base64Image)
                      THEN AfterFirstComma(client.base64Image)
                      ELSE client.base64Image

\* C21: a call whose request fails, or whose response text is not valid
\* JSON, rejects with that very error after exactly one request: no retry,
\* no defaulted record, nothing swallowed.
C21_FailurePropagates ==
    (/\ client.phase \in {"resolved", "rejected"}
     /\ (~client.reply.ok \/ client.reply.text.kind = "garbage")) =>
        /\ client.phase = "rejected"
        /\ client.requests = 1
        /\ DOMAIN client.outcome = {"ok", "error"}
        /\ client.outcome.error = IF client.reply.ok THEN "SyntaxError"
                                  ELSE "request error"

\* C21 happens: a response text that is not JSON has made the call reject.
C21_Witness ==
    /\ client.phase = "rejected"
    /\ client.reply.ok
    /\ client.reply.text.kind = "garbage"

\* A step in which an extraction resolves: one call less in flight, no
\* failure notice, the page still up.
ResolveStep ==
    /\ pc' = "running"
    /\ BagSize(extractions', Urls) < BagSize(extractions, Urls)
    /\ notice' # FailedNotice

\* C22: when an extraction resolves, the edit form presents its result:
\* confirmed as it stands, the record has the date, merchant, total,
\* category and paymentSource of that extraction and the id and imageUrl of
\* the same capture, also when the form was open for an earlier draft.
C22_FormPresentsExtraction ==
    [][ResolveStep =>
         /\ formData' # Null
         /\ \A f \in FrameFields :
              handleSubmit(formData', currentEdit')[f] = currentEdit'[f]]_vars

\* C23: while the page runs, the busy indicator shows exactly when an
\* extraction call or a sync timer is pending.
C23_BusyAccurate ==
    pc = "running" => (isProcessing <=> InFlight > 0)

\* C24: during start-up the storage slot holds every record it held when
\* the page was opened, between the load effect and the persist effects
\* included.
C24_StartupKeepsData ==
    (pc \in {"mount", "persist", "rerender"} /\ prev.some) =>
        storage = JSONstringify(prev.list)

\* C25: whenever the active view is 'edit' a draft is present.
C25_EditHasDraft == activeView = "edit" => currentEdit # Null

\* C25 happens: the edit view with its draft, a record already confirmed
\* and another extraction pending under the form.
C25_Witness ==
    /\ activeView = "edit"
    /\ currentEdit # Null
    /\ Len(receipts) = 1
    /\ isProcessing
    /\ BagSize(extractions, Urls) = 1

====
